---- MODULE Spec2Model ----
(***************************************************************************)
(* Model of the image fixture generator (generate_test_images.py) and the  *)
(* scenario runner (test_scenarios.py).                                    *)
(*                                                                         *)
(* A shell invokes either the runner (with an argument list) or the        *)
(* generator alone (with an environment).  The runner spawns the generator *)
(* as a blocking child process.  The file system (outputs/, diffs/) is the *)
(* only state the processes share.                                         *)
(***************************************************************************)
EXTENDS Integers, Sequences, FiniteSets, TLC

VARIABLES
  runs,          \* number of programs the shell has started so far
  prog,          \* program the shell is running: "none", "runner", "generator"
  argv,          \* sys.argv[1:] of the runner
  rpc,           \* position of the runner process
  scenarios,     \* main(): the list of scenarios to run
  si,            \* main(): index of the loop over scenarios (1-based)
  success,       \* main(): the success flag
  last_result,   \* return value of the most recent run_scenario call
  rexit,         \* exit status of the runner (-1 while it has none)
  environ,       \* TEST_SCENARIO in the generator's environment (<<>> = unset)
  gpc,           \* position of the generator process
  test_scenario, \* generator main(): test_scenario
  rng,           \* state of the generator's `random` module
  test_cases,    \* generator main(): test_cases
  gi,            \* generator main(): index of the loop over test_cases
  image,         \* generator main(): image returned by create_test_image
  gexit,         \* exit status of the generator (-1 while it has none)
  outputs,       \* the directory outputs/
  diffs,         \* the directory diffs/ exists
  cid,           \* history: identity of the current generator process
  written,       \* history: files saved by the current generator process
  pre_names,     \* history: names in outputs/ when the generator started
  fs0,           \* history: outputs/ and diffs/ when the runner started
  log,           \* history: events of the current runner process
  produced,      \* history: results of completed generator runs, per scenario
  completed,     \* history: number of completed generator runs, per scenario
  axis, c1, c2, dpc   \* one coordinate pair of a random rectangle (SpecRect)

vars ==
  << runs, prog, argv, rpc, scenarios, si, success, last_result, rexit,
     environ, gpc, test_scenario, rng, test_cases, gi, image, gexit,
     outputs, diffs, cid, written, pre_names, fs0, log, produced, completed,
     axis, c1, c2, dpc >>

runnerVars == << argv, rpc, scenarios, si, success, last_result, rexit, fs0, log >>

genVars == << gpc, test_scenario, rng, test_cases, gi, image, gexit >>

genHist == << cid, written, pre_names, produced, completed >>

rectVars == << axis, c1, c2, dpc >>

(***************************************************************************)
(* Bounds                                                                  *)
(***************************************************************************)
MaxRuns == 2

(***************************************************************************)
(* The `random` module: CPython's Mersenne Twister.  MT42 and MT123 are    *)
(* the upper 16 bits of the successive 32-bit outputs after seed(42) and   *)
(* seed(123); getrandbits(k) for k <= 16 returns the upper k bits.         *)
(***************************************************************************)
MT42 ==
  <<
    41905, 7296, 1639, 48598, 18024, 16049, 14628, 9144, 48265, 6717,
    44348, 48540, 58469, 35741, 5697, 38698, 27651, 2082, 1952, 6140,
    14328, 15247, 33118, 39453, 1739, 36781, 13031, 46925, 42590, 45962,
    35713, 27493, 14446, 29439, 38618, 18231, 53046, 56970, 425, 49729,
    52810, 10463, 45753, 27696, 22298, 18210, 10189, 14110, 62731, 50036,
    22059, 6698, 6078, 24898, 6338, 23526, 55541, 22541, 39565, 17335,
    52895, 2847, 47823, 30108, 35142, 8180, 63774, 60443, 24807, 5164,
    36178, 19213, 54355, 41198, 40535, 58028, 56472, 23700, 37837, 12601,
    46174, 4558, 3003, 43336, 14935, 50663, 18965, 64567, 5229, 56054,
    15256, 56785, 6619, 24911, 18217, 29714, 41660, 54664, 23909, 10659,
    24260, 23283, 13730, 43920, 17496, 45994, 61384, 44796, 42469, 4679,
    39920, 41613, 11215, 35005, 47784, 16043, 10708, 30294, 24867, 17691,
    64849, 60646, 41943, 45099, 36500, 14392, 44866, 21252, 55237, 50352
  >>
MT123 ==
  <<
    3431, 17542, 5713, 50394, 26688, 17468, 7058, 54952, 59060, 57332,
    2500, 24846, 35140, 36852, 21770, 22334, 55842, 3401, 10463, 8851,
    22099, 36763, 21875, 45985, 16067, 10733, 109, 59369, 28591, 50697,
    5741, 57581, 39164, 24746, 4579, 432, 20673, 47974, 29381, 6687,
    59336, 2876, 6079, 43721, 9317, 8273, 51778, 59415, 1391, 19123,
    59713, 28222, 37578, 31255, 17388, 30755, 54908, 2408, 50383, 19994,
    22509, 34188, 52526, 31651, 13556, 53822, 39905, 41861, 34542, 37015,
    53040, 62951, 20661, 822, 26098, 58519, 50415, 42346, 33603, 28467,
    44881, 35292, 41835, 52197, 43690, 39092, 58333, 54624, 31859, 34118,
    43808, 27492, 24544, 33427, 2086, 55531, 49425, 42300, 11892, 47567,
    53751, 5413, 59876, 31909, 43127, 17163, 11149, 21948, 22080, 36320,
    25637, 57928, 4803, 47389, 29934, 25405, 37563, 51035, 22027, 1068,
    12390, 38417, 5777, 54499, 41177, 23823, 840, 58730, 23063, 65375
  >>

MTWords(seed) == IF seed = 123 THEN MT123 ELSE MT42

RECURSIVE Pow2(_)
Pow2(k) == IF k = 0 THEN 1 ELSE 2 * Pow2(k - 1)

RECURSIVE BitLength(_)
BitLength(n) == IF n = 0 THEN 0 ELSE 1 + BitLength(n \div 2)

\* random.seed(a): the generator restarts at the first word of the stream of a
seed(a) == [seed |-> a, pos |-> 1]

\* random.getrandbits(k): the upper k bits of the next word
getrandbits(r, k) ==
  [val |-> MTWords(r.seed)[r.pos] \div Pow2(16 - k),
   rng |-> [r EXCEPT !.pos = @ + 1]]

\* random._randbelow(n): k = n.bit_length(); draw k bits until the value is < n
RECURSIVE randbelow(_, _)
randbelow(r, n) ==
  LET g == getrandbits(r, BitLength(n))
  IN  IF g.val < n THEN g ELSE randbelow(g.rng, n)

\* random.randint(a, b) = a + _randbelow(b - a + 1)
randint(r, a, b) ==
  LET g == randbelow(r, b - a + 1)
  IN  [val |-> a + g.val, rng |-> g.rng]

(***************************************************************************)
(* generate_test_images.py                                                 *)
(***************************************************************************)
DefaultWidth == 400

DefaultHeight == 300

NumRects == 5

MinExtent == 10

MaxExtent == 50

\* color_scheme=None
None == << >>

DefaultColors == << <<255, 255, 255>>, <<0, 0, 0>>, <<100, 150, 200>> >>

\* x2 = x1 + random.randint(10, 50): the far corner from the near corner
FarCornerDetached(near, extent) == extent

FarCorner(near, extent) == near + extent

\* one pass of the loop body: four draws, in the order x1, y1, x2, y2
RandomRect(r, width, height) ==
  LET dx1 == randint(r, 0, width)
      dy1 == randint(dx1.rng, 0, height)
      dx2 == randint(dy1.rng, MinExtent, MaxExtent)
      dy2 == randint(dx2.rng, MinExtent, MaxExtent)
  IN  [rect |-> << dx1.val, dy1.val,
                   FarCorner(dx1.val, dx2.val), FarCorner(dy1.val, dy2.val) >>,
       rng  |-> dy2.rng]

\* for i in range(5): draw.rectangle([x1, y1, x2, y2], fill=shape_color)
RECURSIVE DrawRects(_, _, _, _)
DrawRects(n, r, width, height) ==
  IF n = 0
    THEN [rects |-> << >>, rng |-> r]
    ELSE LET d == RandomRect(r, width, height)
             rest == DrawRects(n - 1, d.rng, width, height)
         IN  [rects |-> << d.rect >> \o rest.rects, rng |-> rest.rng]

\* create_test_image: the drawn image, and the random state it leaves behind
create_test_image(filename, text, width, height, color_scheme, r) ==
  LET cs == IF color_scheme = None THEN DefaultColors ELSE color_scheme
      d  == DrawRects(NumRects, r, width, height)
  IN  [image |-> [size        |-> << width, height >>,
                  bg_color    |-> cs[1],
                  text_color  |-> cs[2],
                  shape_color |-> cs[3],
                  border      |-> << 50, 50, width - 50, height - 50 >>,
                  ellipse     |-> << 100, 100, width - 100, height - 100 >>,
                  text        |-> text,
                  rects       |-> d.rects],
       rng   |-> d.rng]

BaselineSeed == 42

ChangedSeed == 123

SeedPerRun(scn) == IF runs % 2 = 0 THEN ChangedSeed ELSE BaselineSeed

SeedSwapped(scn) == IF scn = "changed" THEN BaselineSeed ELSE ChangedSeed

\* if test_scenario == 'changed': random.seed(123) else: random.seed(42)
SeedFor(scn) == IF scn = "changed" THEN ChangedSeed ELSE BaselineSeed

TestCasesSharedName ==
  << [filename |-> "ui-main-screen.png", text |-> "Main Screen UI",
      color_scheme |-> << <<255, 255, 255>>, <<0, 0, 0>>, <<100, 150, 200>> >>],
     [filename |-> "ui-settings-dialog.png", text |-> "Settings Dialog",
      color_scheme |-> << <<240, 240, 240>>, <<50, 50, 50>>, <<200, 100, 100>> >>],
     [filename |-> "ui-main-screen.png", text |-> "Dashboard View",
      color_scheme |-> << <<250, 250, 250>>, <<30, 30, 30>>, <<150, 200, 100>> >>] >>

\* the hardcoded list test_cases
TestCases ==
  << [filename |-> "ui-main-screen.png", text |-> "Main Screen UI",
      color_scheme |-> << <<255, 255, 255>>, <<0, 0, 0>>, <<100, 150, 200>> >>],
     [filename |-> "ui-settings-dialog.png", text |-> "Settings Dialog",
      color_scheme |-> << <<240, 240, 240>>, <<50, 50, 50>>, <<200, 100, 100>> >>],
     [filename |-> "ui-dashboard.png", text |-> "Dashboard View",
      color_scheme |-> << <<250, 250, 250>>, <<30, 30, 30>>, <<150, 200, 100>> >>] >>

OverridesMixedTwo(cases, scn) ==
  IF scn = "mixed"
    THEN [cases EXCEPT
            ![1].text = "Main Screen UI - CHANGED",
            ![1].color_scheme = << <<255, 255, 255>>, <<0, 0, 0>>, <<200, 100, 150>> >>,
            ![3].text = "Dashboard View - CHANGED"]
    ELSE cases

\* "Modify test cases based on scenario"
ApplyOverrides(cases, scn) ==
  IF scn = "changed"
    THEN [cases EXCEPT
            ![1].text = "Main Screen UI - UPDATED",
            ![1].color_scheme = << <<255, 255, 255>>, <<0, 0, 0>>, <<150, 100, 200>> >>,
            ![2].color_scheme = << <<220, 220, 220>>, <<50, 50, 50>>, <<200, 150, 100>> >>,
            ![3].text = "Dashboard View - MODIFIED",
            ![3].color_scheme = << <<240, 240, 240>>, <<40, 40, 40>>, <<100, 150, 200>> >>]
    ELSE IF scn = "mixed"
    THEN [cases EXCEPT
            ![1].text = "Main Screen UI - CHANGED",
            ![1].color_scheme = << <<255, 255, 255>>, <<0, 0, 0>>, <<200, 100, 150>> >>]
    ELSE cases

(***************************************************************************)
(* The file system.  A directory is absent, or holds a set of files; a     *)
(* file carries its name, its content and (history) the process that wrote *)
(* it.                                                                     *)
(***************************************************************************)
Absent == [exists |-> FALSE, files |-> {}]

EmptyDir == [exists |-> TRUE, files |-> {}]

Names(dir) == { f.name : f \in dir.files }

BlankImage ==
  [size |-> << 0, 0 >>, bg_color |-> << >>, text_color |-> << >>,
   shape_color |-> << >>, border |-> << >>, ellipse |-> << >>,
   text |-> "", rects |-> << >>]

Earlier == [run |-> 0, n |-> 0]

StaleFile(name) ==
  [name |-> name, img |-> [BlankImage EXCEPT !.text = "earlier"], by |-> Earlier]

InitOutputs ==
  { Absent, EmptyDir,
    [exists |-> TRUE, files |-> { StaleFile("old-screen.png") }],
    [exists |-> TRUE, files |-> { StaleFile("ui-main-screen.png") }] }

InitDiffs ==
  { Absent, [exists |-> TRUE, files |-> { StaleFile("ui-main-screen-diff.png") }] }

\* os.makedirs(dir, exist_ok=True)
makedirs(dir) == [exists |-> TRUE, files |-> dir.files]

\* image.save(path): creates the file or replaces its content
save(dir, name, img, by) ==
  [dir EXCEPT !.files = { f \in @ : f.name # name }
                          \cup { [name |-> name, img |-> img, by |-> by] }]

KeepTree(dir) == dir

\* if os.path.exists(dir): shutil.rmtree(dir)
RemoveIfExists(dir) == IF dir.exists THEN Absent ELSE dir

(***************************************************************************)
(* test_scenarios.py                                                       *)
(***************************************************************************)
ScenariosReordered == << "baseline", "mixed", "changed" >>

\* scenarios = ['baseline', 'changed', 'mixed']
AllScenarios == << "baseline", "changed", "mixed" >>

AnyScenario(s, list) == TRUE

\* scenario in scenarios
InScenarios(s, list) == \E i \in 1..Len(list) : list[i] = s

ResultAlways(returncode) == TRUE

\* run_scenario: False if result.returncode != 0, True otherwise
ScenarioResult(returncode) == returncode = 0

SuccessLastWins(flag, ok) == ok

\* if not run_scenario(scenario): success = False
UpdateSuccess(flag, ok) == IF ~ok THEN FALSE ELSE flag

\* the argument lists and environments the shell passes
ArgLists ==
  { << >>, << "baseline" >>, << "changed" >>, << "mixed" >>, << "bogus" >>, << "all" >> }

Environs ==
  { << >>, << "baseline" >>, << "changed" >>, << "mixed" >>, << "other" >> }

ScenarioValues == { "baseline", "changed", "mixed", "other", "bogus", "all" }

Event(ev, scn, rc) == [ev |-> ev, scn |-> scn, rc |-> rc]

(***************************************************************************)
(* Initial state: nothing runs; outputs/ and diffs/ are whatever earlier   *)
(* work left behind.                                                       *)
(***************************************************************************)
InitSys ==
  /\ runs = 0
  /\ prog = "none"
  /\ argv = << >>
  /\ rpc = "off"
  /\ scenarios = << >>
  /\ si = 0
  /\ success = TRUE
  /\ last_result = FALSE
  /\ rexit = -1
  /\ environ = << >>
  /\ gpc = "off"
  /\ test_scenario = ""
  /\ rng = [seed |-> 0, pos |-> 0]
  /\ test_cases = << >>
  /\ gi = 0
  /\ image = BlankImage
  /\ gexit = -1
  /\ outputs \in InitOutputs
  /\ diffs \in InitDiffs
  /\ cid = Earlier
  /\ written = << >>
  /\ pre_names = {}
  /\ fs0 = [outputs |-> outputs, diffs |-> diffs]
  /\ log = << >>
  /\ produced = [s \in ScenarioValues |-> {}]
  /\ completed = [s \in ScenarioValues |-> 0]

Init ==
  /\ InitSys
  /\ axis = "x" /\ c1 = 0 /\ c2 = 0 /\ dpc = "off"

\* a fresh generator process
GenStart(run, n) ==
  /\ gpc' = "makedirs"
  /\ test_scenario' = ""
  /\ rng' = [seed |-> 0, pos |-> 0]
  /\ test_cases' = << >>
  /\ gi' = 0
  /\ image' = BlankImage
  /\ gexit' = -1
  /\ cid' = [run |-> run, n |-> n]
  /\ written' = << >>
  /\ pre_names' = Names(outputs)

GenOff ==
  /\ gpc' = "off"
  /\ test_scenario' = ""
  /\ rng' = [seed |-> 0, pos |-> 0]
  /\ test_cases' = << >>
  /\ gi' = 0
  /\ image' = BlankImage
  /\ gexit' = -1

(***************************************************************************)
(* The shell                                                               *)
(***************************************************************************)
\* python test_scenarios.py [arg]
InvokeRunner ==
  /\ prog = "none"
  /\ runs < MaxRuns
  /\ \E a \in ArgLists : argv' = a
  /\ runs' = runs + 1
  /\ prog' = "runner"
  /\ rpc' = "main"
  /\ scenarios' = << >>
  /\ si' = 0
  /\ success' = TRUE
  /\ last_result' = FALSE
  /\ rexit' = -1
  /\ fs0' = [outputs |-> outputs, diffs |-> diffs]
  /\ log' = << >>
  /\ GenOff
  /\ UNCHANGED << environ, outputs, diffs, cid, written, pre_names,
                  produced, completed, rectVars >>

\* [TEST_SCENARIO=value] python generate_test_images.py
InvokeGenerator ==
  /\ prog = "none"
  /\ runs < MaxRuns
  /\ \E e \in Environs : environ' = e
  /\ runs' = runs + 1
  /\ prog' = "generator"
  /\ rpc' = "off"
  /\ rexit' = -1
  /\ log' = << >>
  /\ GenStart(runs + 1, 0)
  /\ UNCHANGED << argv, scenarios, si, success, last_result, fs0,
                  outputs, diffs, produced, completed, rectVars >>

(***************************************************************************)
(* The generator process                                                   *)
(***************************************************************************)
\* os.makedirs('outputs', exist_ok=True)
GenMakedirs ==
  /\ gpc = "makedirs"
  /\ outputs' = makedirs(outputs)
  /\ gpc' = "seed"
  /\ UNCHANGED << runs, prog, runnerVars, environ, test_scenario, rng,
                  test_cases, gi, image, gexit, diffs, genHist, rectVars >>

\* test_scenario = os.environ.get('TEST_SCENARIO', 'baseline'); random.seed(...)
GenSeed ==
  /\ gpc = "seed"
  /\ test_scenario' = IF environ = << >> THEN "baseline" ELSE environ[1]
  /\ rng' = seed(SeedFor(test_scenario'))
  /\ gpc' = "cases"
  /\ UNCHANGED << runs, prog, runnerVars, environ, test_cases, gi, image,
                  gexit, outputs, diffs, genHist, rectVars >>

\* test_cases = [...]; the scenario's overrides
GenBuildCases ==
  /\ gpc = "cases"
  /\ test_cases' = ApplyOverrides(TestCases, test_scenario)
  /\ gi' = 1
  /\ gpc' = "loop"
  /\ UNCHANGED << runs, prog, runnerVars, environ, test_scenario, rng, image,
                  gexit, outputs, diffs, genHist, rectVars >>

\* for test_case in test_cases: image = create_test_image(...)
GenCreateImage ==
  /\ gpc = "loop"
  /\ gi <= Len(test_cases)
  /\ LET tc == test_cases[gi]
         c  == create_test_image(tc.filename, tc.text, DefaultWidth,
                                 DefaultHeight, tc.color_scheme, rng)
     IN  /\ image' = c.image
         /\ rng' = c.rng
  /\ gpc' = "save"
  /\ UNCHANGED << runs, prog, runnerVars, environ, test_scenario, test_cases,
                  gi, gexit, outputs, diffs, genHist, rectVars >>

\* image.save(os.path.join('outputs', test_case['filename']))
GenSave ==
  /\ gpc = "save"
  /\ outputs' = save(outputs, test_cases[gi].filename, image, cid)
  /\ written' = Append(written, [name |-> test_cases[gi].filename, img |-> image])
  /\ gi' = gi + 1
  /\ gpc' = "loop"
  /\ UNCHANGED << runs, prog, runnerVars, environ, test_scenario, rng,
                  test_cases, image, gexit, diffs, cid, pre_names,
                  produced, completed, rectVars >>

\* the loop is exhausted: main returns, the process exits with status 0
GenFinish ==
  /\ gpc = "loop"
  /\ gi > Len(test_cases)
  /\ gexit' = 0
  /\ gpc' = "exited"
  /\ prog' = IF prog = "generator" THEN "none" ELSE prog
  /\ produced' = [produced EXCEPT ![test_scenario] = @ \cup { written }]
  /\ completed' = [completed EXCEPT ![test_scenario] = @ + 1]
  /\ UNCHANGED << runs, runnerVars, environ, test_scenario, rng, test_cases,
                  gi, image, outputs, diffs, cid, written, pre_names, rectVars >>

\* an IO error in makedirs or save is not caught: traceback, exit status 1
GenCrash ==
  /\ gpc \in { "makedirs", "save" }
  /\ gexit' = 1
  /\ gpc' = "exited"
  /\ prog' = IF prog = "generator" THEN "none" ELSE prog
  /\ UNCHANGED << runs, runnerVars, environ, test_scenario, rng, test_cases,
                  gi, image, outputs, diffs, genHist, rectVars >>

(***************************************************************************)
(* The runner process                                                      *)
(***************************************************************************)
\* main(): the argument check, up to `success = True`
RunnerMain ==
  /\ rpc = "main"
  /\ IF Len(argv) > 0 /\ ~InScenarios(argv[1], AllScenarios)
       THEN \* print("Invalid scenario..."); sys.exit(1)
            /\ rexit' = 1
            /\ rpc' = "exited"
            /\ prog' = "none"
            /\ UNCHANGED << scenarios, si, success >>
       ELSE /\ scenarios' = IF Len(argv) > 0 THEN << argv[1] >> ELSE AllScenarios
            /\ success' = TRUE
            /\ si' = 1
            /\ rpc' = "loop"
            /\ UNCHANGED << rexit, prog >>
  /\ UNCHANGED << runs, argv, last_result, fs0, log, environ, genVars,
                  outputs, diffs, genHist, rectVars >>

\* run_scenario(scenario_name), up to the cleanup of the previous outputs
RunScenarioCleanup ==
  /\ rpc = "loop"
  /\ si <= Len(scenarios)
  /\ environ' = << scenarios[si] >>
  /\ outputs' = RemoveIfExists(outputs)
  /\ diffs' = RemoveIfExists(diffs)
  /\ log' = Append(log, Event("run_scenario", scenarios[si], -1))
  /\ rpc' = "spawn"
  /\ UNCHANGED << runs, prog, argv, scenarios, si, success, last_result,
                  rexit, fs0, genVars, genHist, rectVars >>

\* subprocess.run([...], env=env, ...): the child starts, the runner blocks
RunScenarioSpawn ==
  /\ rpc = "spawn"
  /\ GenStart(runs, si)
  /\ log' = Append(log, Event("spawn", scenarios[si], -1))
  /\ rpc' = "wait"
  /\ UNCHANGED << runs, prog, argv, scenarios, si, success, last_result,
                  rexit, fs0, environ, outputs, diffs, produced, completed,
                  rectVars >>

\* subprocess.run returns; run_scenario returns; main updates success
RunScenarioReturn ==
  /\ rpc = "wait"
  /\ gpc = "exited"
  /\ last_result' = ScenarioResult(gexit)
  /\ success' = UpdateSuccess(success, last_result')
  /\ log' = Append(log, Event("exit", scenarios[si], gexit))
  /\ si' = si + 1
  /\ rpc' = "loop"
  /\ gpc' = "off"
  /\ UNCHANGED << runs, prog, argv, scenarios, rexit, fs0, environ,
                  test_scenario, rng, test_cases, gi, image, gexit,
                  outputs, diffs, genHist, rectVars >>

\* after the loop: report, and sys.exit(1) unless success
RunnerReport ==
  /\ rpc = "loop"
  /\ si > Len(scenarios)
  /\ rexit' = IF success THEN 0 ELSE 1
  /\ rpc' = "exited"
  /\ prog' = "none"
  /\ UNCHANGED << runs, argv, scenarios, si, success, last_result, fs0, log,
                  environ, genVars, outputs, diffs, genHist, rectVars >>

Next ==
  \/ InvokeRunner
  \/ InvokeGenerator
  \/ GenMakedirs
  \/ GenSeed
  \/ GenBuildCases
  \/ GenCreateImage
  \/ GenSave
  \/ GenFinish
  \/ GenCrash
  \/ RunnerMain
  \/ RunScenarioCleanup
  \/ RunScenarioSpawn
  \/ RunScenarioReturn
  \/ RunnerReport

Spec == Init /\ [][Next]_vars

(***************************************************************************)
(* One coordinate pair of a random rectangle, over every value randint can *)
(* return: the near corner is randint(0, dimension), the far corner adds   *)
(* randint(10, 50).                                                        *)
(***************************************************************************)
Dimension(a) == IF a = "x" THEN DefaultWidth ELSE DefaultHeight

\* the values random.randint(a, b) can return
RandintValues(a, b) == a..b

InitRect ==
  /\ InitSys
  /\ outputs = Absent
  /\ diffs = Absent
  /\ axis \in { "x", "y" }
  /\ c1 = 0
  /\ c2 = 0
  /\ dpc = "near"

\* x1, y1 = random.randint(0, width), random.randint(0, height)
DrawNear ==
  /\ dpc = "near"
  /\ \E v \in RandintValues(0, Dimension(axis)) : c1' = v
  /\ dpc' = "far"
  /\ UNCHANGED << runs, prog, runnerVars, environ, genVars, outputs, diffs,
                  genHist, axis, c2 >>

\* x2, y2 = x1 + random.randint(10, 50), y1 + random.randint(10, 50)
DrawFar ==
  /\ dpc = "far"
  /\ \E e \in RandintValues(MinExtent, MaxExtent) : c2' = FarCorner(c1, e)
  /\ dpc' = "drawn"
  /\ UNCHANGED << runs, prog, runnerVars, environ, genVars, outputs, diffs,
                  genHist, axis, c1 >>

NextRect == DrawNear \/ DrawFar

SpecRect == InitRect /\ [][NextRect]_vars

(***************************************************************************)
(* Properties                                                              *)
(***************************************************************************)
ThreeNames == { "ui-main-screen.png", "ui-settings-dialog.png", "ui-dashboard.png" }

ExitCodes == { log[i].rc : i \in { j \in 1..Len(log) : log[j].ev = "exit" } }

\* the runner is past a run_scenario call that has returned
Returned == rpc = "loop" /\ si > 1

\* C1: a runner started without argument runs run_scenario for baseline,
\* changed and mixed, in this order and once each; each child is spawned
\* after the one before has exited; and the runner exits with status 0 only
\* if all three children exited with code 0.
RunnerAllInOrder ==
  (rpc # "off" /\ argv = << >>) =>
    /\ Len(log) <= 9
    /\ \A i \in 1..Len(log) :
         /\ log[i].ev = << "run_scenario", "spawn", "exit" >>[((i - 1) % 3) + 1]
         /\ log[i].scn = << "baseline", "changed", "mixed" >>[((i - 1) \div 3) + 1]
    /\ gpc \notin { "off", "exited" } => log[Len(log)].ev = "spawn"
    /\ rpc = "exited" =>
         /\ Len(log) = 9
         /\ rexit \in { 0, 1 }
         /\ rexit = 0 => ExitCodes = { 0 }

RunnerAllDone ==
  /\ rpc = "exited" /\ argv = << >> /\ rexit = 0
  /\ Len(log) = 9 /\ log[9] = Event("exit", "mixed", 0)

\* C2: a runner started with an argument other than baseline, changed or
\* mixed exits with status 1 and does nothing else: no run_scenario call,
\* no child, outputs/ and diffs/ as they were when it started.
InvalidArgument ==
  Len(argv) > 0 /\ argv[1] \notin { "baseline", "changed", "mixed" }

RunnerRejectsInvalid ==
  (rpc # "off" /\ InvalidArgument) =>
    /\ rpc \in { "main", "exited" }
    /\ rpc = "exited" => rexit = 1
    /\ log = << >>
    /\ gpc = "off"
    /\ cid.run # runs
    /\ outputs = fs0.outputs
    /\ diffs = fs0.diffs

RunnerRejected ==
  /\ rpc = "exited" /\ argv = << "bogus" >> /\ rexit = 1
  /\ outputs.files # {} /\ diffs.exists

\* C3: in a runner that passed the argument check, a child's non-zero exit
\* fails that scenario only: every requested scenario is still cleaned up
\* for, spawned and waited for, and the runner exits with status 1 exactly
\* when some child returned non-zero (and with status 0 otherwise).
RunnerAttemptsAll ==
  /\ Returned => (last_result <=> log[Len(log)].rc = 0)
  /\ (rpc = "exited" /\ scenarios # << >>) =>
       /\ Len(log) = 3 * Len(scenarios)
       /\ \A k \in 1..Len(scenarios) :
            /\ log[3 * k - 2] = Event("run_scenario", scenarios[k], -1)
            /\ log[3 * k - 1] = Event("spawn", scenarios[k], -1)
            /\ log[3 * k].ev = "exit" /\ log[3 * k].scn = scenarios[k]
       /\ rexit \in { 0, 1 }
       /\ rexit = 1 <=> (\E c \in ExitCodes : c # 0)

RunnerFirstChildFailed ==
  /\ rpc = "exited" /\ Len(scenarios) = 3 /\ rexit = 1
  /\ log[3].rc = 1 /\ log[6].rc = 0 /\ log[9].rc = 0

\* C4 as stated: after a generator run that completes, outputs/ contains
\* exactly three files, named ui-main-screen.png, ui-settings-dialog.png and
\* ui-dashboard.png, whatever TEST_SCENARIO is.
GeneratorLeavesExactlyThree ==
  (gpc = "exited" /\ gexit = 0) =>
    /\ Names(outputs) = ThreeNames
    /\ Cardinality(outputs.files) = 3

\* C4 amended: a generator run that completes has written exactly three
\* files, named ui-main-screen.png, ui-settings-dialog.png and
\* ui-dashboard.png, whatever TEST_SCENARIO is; files of other names that
\* were in outputs/ before the run stay, so outputs/ holds those three files
\* and the other files it held before.
GeneratorWritesExactlyThree ==
  (gpc = "exited" /\ gexit = 0) =>
    /\ Len(written) = 3
    /\ { written[i].name : i \in 1..Len(written) } = ThreeNames
    /\ { f \in outputs.files : f.by = cid } =
         { [name |-> written[i].name, img |-> written[i].img, by |-> cid] :
             i \in 1..Len(written) }
    /\ Names(outputs) = pre_names \cup ThreeNames
    /\ Cardinality(outputs.files) = Cardinality(pre_names \cup ThreeNames)
    /\ pre_names \subseteq ThreeNames => Cardinality(outputs.files) = 3

GeneratorKeptOtherFile ==
  /\ gpc = "exited" /\ gexit = 0 /\ test_scenario = "other"
  /\ "old-screen.png" \in pre_names
  /\ Cardinality(outputs.files) = 4

\* C5: a completed mixed run and a completed baseline run differ in exactly
\* one of the three files; the other two have the same name, caption,
\* colors and rectangles in both.
MixedDiffersInOne ==
  \A b \in produced["baseline"], m \in produced["mixed"] :
    /\ Len(b) = 3 /\ Len(m) = 3
    /\ \A i \in 1..3 : b[i].name = m[i].name
    /\ Cardinality({ i \in 1..3 : b[i] # m[i] }) = 1

MixedAndBaselineProduced ==
  /\ produced["baseline"] # {} /\ produced["mixed"] # {}
  /\ \E b \in produced["baseline"], m \in produced["mixed"] :
       b[1] # m[1] /\ b[2] = m[2] /\ b[3] = m[3]

\* C6: all completed runs of the generator with the same scenario produce
\* the same three files (names, captions, colors, rectangles), each image
\* with five rectangles.
SameScenarioSameOutput ==
  \A s \in ScenarioValues :
    /\ Cardinality(produced[s]) <= 1
    /\ \A p \in produced[s] : \A i \in 1..Len(p) : Len(p[i].img.rects) = 5

BaselineProducedTwice ==
  completed["baseline"] >= 2 /\ Cardinality(produced["baseline"]) = 1

\* C7: when run_scenario has returned True, outputs/ holds the three PNG
\* files and each was written by that scenario's child.
TrueMeansAllThree ==
  (Returned /\ last_result) =>
    /\ outputs.exists
    /\ Names(outputs) = ThreeNames
    /\ Cardinality(outputs.files) = 3
    /\ \A f \in outputs.files : f.by = [run |-> runs, n |-> si - 1]

ScenarioSucceeded ==
  /\ Returned /\ last_result /\ si = 3
  /\ Cardinality(outputs.files) = 3
  /\ log[3].rc = 1

Overridden(i) ==
  \/ test_cases[i].text # TestCases[i].text
  \/ test_cases[i].color_scheme # TestCases[i].color_scheme

CasesBuilt == gpc \in { "loop", "save", "exited" } /\ test_cases # << >>

SeedsAsClaimed ==
  /\ test_scenario = "baseline" =>
       rng.seed = 42 /\ \A i \in 1..3 : ~Overridden(i)
  /\ test_scenario = "changed" => rng.seed = 123
  /\ test_scenario = "mixed" => rng.seed = 42

\* C8 as stated: baseline uses seed 42 and no override, changed uses seed
\* 123, mixed uses seed 42 and overrides two of the three descriptors.
MixedOverridesTwo ==
  CasesBuilt =>
    /\ SeedsAsClaimed
    /\ test_scenario = "mixed" =>
         Cardinality({ i \in 1..3 : Overridden(i) }) = 2

\* C8 amended: baseline uses seed 42 and no override, changed uses seed 123,
\* mixed uses seed 42 and overrides the caption and the colors of one of the
\* three descriptors, the first.
MixedOverridesOne ==
  CasesBuilt =>
    /\ SeedsAsClaimed
    /\ test_scenario = "mixed" =>
         /\ { i \in 1..3 : Overridden(i) } = { 1 }
         /\ test_cases[1].text # TestCases[1].text
         /\ test_cases[1].color_scheme # TestCases[1].color_scheme

MixedCasesBuilt ==
  gpc = "loop" /\ gi = 1 /\ test_scenario = "mixed" /\ rng = [seed |-> 42, pos |-> 1]

\* C9 as stated: every random rectangle lies in the canvas,
\* 0 <= x1 <= x2 <= 400 and 0 <= y1 <= y2 <= 300.
RectInsideCanvas ==
  dpc = "drawn" =>
    /\ 0 <= c1 /\ c1 <= c2
    /\ c2 <= (IF axis = "x" THEN 400 ELSE 300)

\* C9 amended: the near corner of every random rectangle lies in the canvas,
\* 0 <= x1 <= 400 and 0 <= y1 <= 300; the far corner is 10 to 50 beyond it
\* in each direction, so x2 <= 450 and y2 <= 350 and it can lie outside.
RectNearCornerInsideCanvas ==
  dpc = "drawn" =>
    /\ 0 <= c1 /\ c1 <= (IF axis = "x" THEN 400 ELSE 300)
    /\ c1 + 10 <= c2 /\ c2 <= c1 + 50
    /\ c2 <= (IF axis = "x" THEN 450 ELSE 350)

RectBeyondCanvas == dpc = "drawn" /\ axis = "x" /\ c1 = 400 /\ c2 = 450

ChildStarting == prog = "runner" /\ gpc = "makedirs"

ChildRunning == prog = "runner" /\ rpc = "wait"

\* C10 as stated: run_scenario clears outputs/ and diffs/ before it spawns
\* the child, no file of an earlier scenario survives, and both directories
\* exist after a successful scenario.
BothDirsRecreated ==
  /\ ChildStarting => ~outputs.exists /\ ~diffs.exists
  /\ ChildRunning => \A f \in outputs.files : f.by = cid
  /\ (Returned /\ last_result) => outputs.exists /\ diffs.exists

\* C10 amended: run_scenario clears outputs/ and diffs/ before it spawns the
\* child, no file of an earlier scenario survives, and only outputs/ is
\* recreated (by the child): after a successful scenario outputs/ exists and
\* diffs/ does not.
OnlyOutputsRecreated ==
  /\ ChildStarting => ~outputs.exists /\ ~diffs.exists
  /\ ChildRunning => \A f \in outputs.files : f.by = cid
  /\ (Returned /\ last_result) => outputs.exists /\ ~diffs.exists

DirsClearedThenSucceeded ==
  /\ Returned /\ last_result
  /\ fs0.outputs.files # {} /\ fs0.diffs.exists
  /\ outputs.exists /\ ~diffs.exists
====
